---- MODULE Spec2Model ----
(***************************************************************************)
(* ContentControlResolver (src/app/content_resolver.py) as a state machine. *)
(*                                                                         *)
(* HTML is a sequence of tokens: paragraphs of text, reference markers in   *)
(* their literal syntax, and the wrapper <div class="resolved-content">     *)
(* elements that _embed_content writes.  The Python call stack of           *)
(* resolve_document activations is the sequence `frames`; a pending call    *)
(* and a pending return value are `call` and `ret`, so that every           *)
(* activation has an entry step and an exit step of its own.                *)
(***************************************************************************)
EXTENDS Integers, Sequences, FiniteSets, TLC

VARIABLES
    max_depth,          \* self.max_depth
    cache,              \* self.cache: cache key -> fragment
    dependency_graph,   \* self.dependency_graph: document -> set of identifiers
    resolution_stack,   \* self.resolution_stack
    statistics,         \* self.statistics
    frames,             \* activations of resolve_document, outermost first
    call,               \* <<>> or <<c>>: a resolve_document call about to enter
    ret,                \* <<>> or <<r>>: a value being returned to the caller
    result,             \* <<>> or <<r>>: what the last top-level call gave its caller
    calls,              \* number of top-level calls made so far
    lookups,            \* history: cache key -> completed _resolve_single_reference calls
    outcomes,           \* history: error flags returned during the current top-level call
    reply,              \* <<>> or <<v>>: what get_statistics / get_dependency_graph returned last
    other,              \* the locals of a second caller's thread while it is not running
    \* AdvancedStructureParser (src/app/structure_parser.py)
    parser_statistics,  \* self.statistics of the parser
    document,           \* the content handed to parse_document_structure
    attrs,              \* the attributes of the soup's elements: element id -> name -> value
    root,               \* the StructureNode tree of the call in progress
    activations,        \* activations of _process_nested_tables, outermost first
    conditionals,       \* the locals of _process_conditional_blocks
    pc,                 \* where parse_document_structure stands
    parsed,             \* <<>> or <<r>>: what parse_document_structure returned last
    validation,         \* <<>> or <<v>>: what validate_structure returned last
    stats_reply         \* <<>> or <<v>>: what the parser's get_statistics returned last

resolver_vars == <<max_depth, cache, dependency_graph, resolution_stack, statistics,
                   frames, call, ret, result, calls, lookups, outcomes, reply, other>>

parser_vars == <<parser_statistics, document, attrs, root, activations, conditionals,
                 pc, parsed, validation, stats_reply>>

vars == <<resolver_vars, parser_vars>>

----------------------------------------------------------------------------
(* Bounds of the model *)

MaxMaxDepth == 3        \* max_depth is drawn from 0..MaxMaxDepth
MaxCalls == 2           \* top-level resolve_document calls per behaviour
MaxLookups == 60        \* cap on cache_hits + cache_misses

----------------------------------------------------------------------------
(* HTML tokens *)

Txt(s) == [t |-> "text", form |-> "", id |-> s, type |-> "", body |-> <<>>]

\* a reference in its literal syntax:
\*   curly_content  {{content:ID}}      curly    {{ID}}
\*   include        @include(ID)        INCLUDE  @INCLUDE(ID)
\*   bracket        [content:ID]        attr     <div data-content-control="ID">
Mark(form, id) == [t |-> "mark", form |-> form, id |-> id, type |-> "", body |-> <<>>]

\* <div class="resolved-content" data-source="src" data-type="ty"> body </div>
Wrap(src, ty, body) == [t |-> "wrap", form |-> "", id |-> src, type |-> ty, body |-> body]

None == [some |-> FALSE, html |-> <<>>]
Some(h) == [some |-> TRUE, html |-> h]
\* Python truthiness of an Optional[str]
Truthy(c) == c.some /\ c.html # <<>>

RECURSIVE Flatten(_)
\* the tokens of an HTML text in document order, wrappers opened up
Flatten(h) ==
    IF h = <<>> THEN <<>>
    ELSE LET x == Head(h)
         IN  (IF x.t = "wrap" THEN Flatten(x.body) ELSE <<x>>) \o Flatten(Tail(h))

----------------------------------------------------------------------------
(* The documents on disk *)

DcNames == {"dc-h", "dc-y"}          \* identifiers that start with "dc-"
Unencodable == {"bad"}               \* identifiers str.encode() rejects

NoFile == [ext |-> "none", ok |-> FALSE, content |-> <<>>]
Docx(c) == [ext |-> "docx", ok |-> TRUE, content |-> c]

\* _resolve_path(id) and the file found there: its suffix, whether the
\* converter succeeds on it, and the fragment the converter (or read()) gives
FS(id) ==
    CASE id = "A"  -> Docx(<<Mark("include", "B")>>)
      [] id = "./A" -> Docx(<<Mark("include", "B")>>)   \* A under another path string
      [] id = "B"  -> Docx(<<Txt("b"), Mark("include", "A")>>)
      [] id = "X"  -> Docx(<<Txt("x"), Mark("include", "B")>>)
      [] id = "S"  -> Docx(<<Mark("bracket", "S")>>)
      [] id = "D1" -> Docx(<<Mark("attr", "D2")>>)
      [] id = "D2" -> Docx(<<Mark("attr", "D3")>>)
      [] id = "D3" -> Docx(<<Mark("attr", "D4")>>)
      [] id = "D4" -> Docx(<<Mark("attr", "D5")>>)
      [] id = "D5" -> Docx(<<Txt("d5")>>)
      [] id = "M"  -> Docx(<<Mark("include", "H"), Mark("curly_content", "H"),
                             Mark("curly", "dc-h"), Mark("include", "H"),
                             Mark("bracket", "T"), Mark("attr", "dc-h"),
                             Mark("INCLUDE", "H")>>)
      [] id = "H"  -> [ext |-> "html", ok |-> TRUE,
                       content |-> <<Txt("h"), Mark("include", "E")>>]
      [] id = "E"  -> Docx(<<>>)
      [] id = "T"  -> [ext |-> "txt", ok |-> TRUE, content |-> <<Txt("t")>>]
      [] id = "F"  -> [ext |-> "docx", ok |-> FALSE, content |-> <<>>]
      [] id = "LH" -> Docx(<<Txt("lh")>>)
      [] id = "U"  -> Docx(<<Mark("include", "bad")>>)
      [] id = "V"  -> Docx(<<Mark("include", "U"), Mark("bracket", "S"),
                             Mark("include", "F"), Mark("include", "nofile"),
                             Mark("attr", "E")>>)
      \* a file that the path search finds and the content block search does not
      [] id = "dc-y" -> [ext |-> "html", ok |-> TRUE, content |-> <<Txt("y")>>]
      [] id = "W"  -> Docx(<<Mark("curly", "dc-y"), Mark("curly_content", "dc-y")>>)
      [] OTHER     -> NoFile

\* content_block_mappings / _find_content_block_file: block name -> path, "" if none
BlockPath(name) == IF name = "dc-h" THEN "LH" ELSE ""

\* the documents a caller resolves at top level
TopDocs == {"A", "./A", "X", "D1", "LH", "M", "V", "U", "E", "W"}

\* the depth arguments they pass: the default, the last depth that is let in,
\* and the first that is not
DepthArgs == {0, max_depth, max_depth + 1}

----------------------------------------------------------------------------
(* _extract_references *)

PatternOrder == <<"double_curly", "content_block", "include_directive", "sharedo_content">>

\* does PATTERNS[kind] match the token's text
Matches(kind, x) ==
    /\ x.t = "mark"
    /\ CASE kind = "double_curly"      -> x.form = "curly_content"
         [] kind = "content_block"     -> x.form = "curly" /\ x.id \in DcNames
         [] kind = "include_directive" -> x.form \in {"include", "INCLUDE"}
         [] kind = "sharedo_content"   -> x.form = "bracket"
         [] kind = "data_attribute"    -> x.form = "attr" /\ x.id # ""
         [] OTHER -> FALSE

RECURSIVE FindAll(_, _)
\* pattern.findall(content): the captured identifiers, in order of occurrence
FindAll(kind, toks) ==
    IF toks = <<>> THEN <<>>
    ELSE (IF Matches(kind, Head(toks)) THEN <<<<kind, Head(toks).id>>>> ELSE <<>>)
         \o FindAll(kind, Tail(toks))

\* '<' in content
HasAngle(h) == \E j \in 1..Len(h) : h[j].t \in {"text", "wrap"} \/ h[j].form = "attr"

ExtractReferences(h) ==
    IF h = <<>> THEN <<>>
    ELSE LET toks == Flatten(h)
         IN  FindAll(PatternOrder[1], toks) \o FindAll(PatternOrder[2], toks)
             \o FindAll(PatternOrder[3], toks) \o FindAll(PatternOrder[4], toks)
             \o (IF HasAngle(h) THEN FindAll("data_attribute", toks) ELSE <<>>)

----------------------------------------------------------------------------
(* _embed_content *)

\* the literal text that _embed_content searches for, as a token form
EmbedForm(ref_type) ==
    CASE ref_type = "double_curly"      -> "curly"
      [] ref_type = "content_block"     -> "curly"
      [] ref_type = "include_directive" -> "include"
      [] ref_type = "sharedo_content"   -> "bracket"
      [] ref_type = "data_attribute"    -> "attr"
      [] OTHER -> "none"

RECURSIVE ReplaceAll(_, _, _, _)
\* html.replace(pattern, wrapped): every occurrence, also inside earlier wrappers;
\* the inserted text is not searched again
ReplaceAll(h, form, id, w) ==
    IF h = <<>> THEN <<>>
    ELSE LET x == Head(h)
             y == IF x.t = "mark" /\ x.form = form /\ x.id = id THEN w
                  ELSE IF x.t = "wrap"
                       THEN [x EXCEPT !.body = ReplaceAll(x.body, form, id, w)]
                       ELSE x
         IN  <<y>> \o ReplaceAll(Tail(h), form, id, w)

EmbedContent(h, ref_type, ref_path, content) ==
    ReplaceAll(h, EmbedForm(ref_type), ref_path, Wrap(ref_path, ref_type, content))

----------------------------------------------------------------------------
(* resolve_document: entry *)

\* the membership test left out
InStack_never(doc) == FALSE

InStack(doc) == \E j \in 1..Len(resolution_stack) : resolution_stack[j] = doc

\* the two checks at the head of resolve_document
EntryCheck(doc, depth) ==
    IF depth > max_depth THEN "max_depth_exceeded"
    ELSE IF InStack(doc) THEN "circular_reference"
    ELSE "ok"

\* every rejection counted as a circular reference
RejectStatistics_always(st, flag) == [st EXCEPT !.circular_references = @ + 1]

\* statistics after a call was rejected with the given flag
RejectStatistics(st, flag) ==
    IF flag = "circular_reference"
    THEN [st EXCEPT !.circular_references = @ + 1]
    ELSE st

ErrorStats(flag) ==
    [shape |-> "error", error |-> flag,
     references_found |-> 0, resolved |-> 0, failed |-> 0, from_cache |-> 0]

\* one reference reported where none was found
ZeroStats_counted ==
    [shape |-> "zero", error |-> "",
     references_found |-> 1, resolved |-> 0, failed |-> 0, from_cache |-> 0]

ZeroStats ==
    [shape |-> "zero", error |-> "",
     references_found |-> 0, resolved |-> 0, failed |-> 0, from_cache |-> 0]

FullStats(n) ==
    [shape |-> "full", error |-> "",
     references_found |-> n, resolved |-> 0, failed |-> 0, from_cache |-> 0]

\* what a rejected call returns: (html_content, {'error': flag})
Rejected(c, flag) ==
    [doc |-> c.doc, depth |-> c.depth, arg |-> c.html, html |-> c.html,
     stats |-> ErrorStats(flag), raised |-> FALSE, refs |-> <<>>, done |-> <<>>]

NewFrame(c) ==
    LET refs == ExtractReferences(c.html)
    IN  [doc |-> c.doc, depth |-> c.depth, html |-> c.html, refs |-> refs, i |-> 1,
         resolved_html |-> c.html, stats |-> FullStats(Len(refs)),
         stage |-> "loop", done |-> <<>>]

Top == frames[Len(frames)]
Front(s) == SubSeq(s, 1, Len(s) - 1)
SetTop(f) == [frames EXCEPT ![Len(frames)] = f]

Idle == frames = <<>> /\ call = <<>> /\ ret = <<>>

\* a thread that has called nothing yet
NoThread == [frames |-> <<>>, call |-> <<>>, ret |-> <<>>, result |-> <<>>, outcomes |-> {}]

\* a caller invokes resolve_document(doc, html, depth) on the idle resolver
TopCall(doc, depth) ==
    /\ Idle
    /\ calls < MaxCalls
    /\ call' = <<[doc |-> doc, html |-> FS(doc).content, depth |-> depth]>>
    /\ calls' = calls + 1
    /\ result' = <<>>
    /\ outcomes' = {}
    /\ reply' = <<>>
    /\ UNCHANGED <<max_depth, cache, dependency_graph, resolution_stack, statistics,
                   frames, ret, lookups>>
    /\ UNCHANGED other
    /\ UNCHANGED parser_vars

\* the head of resolve_document, up to the push
Enter ==
    /\ call # <<>>
    /\ LET c == call[1]
           flag == EntryCheck(c.doc, c.depth)
       IN  IF flag # "ok"
           THEN /\ ret' = <<Rejected(c, flag)>>
                /\ statistics' = RejectStatistics(statistics, flag)
                /\ outcomes' = outcomes \cup {flag}
                /\ UNCHANGED <<resolution_stack, frames>>
           ELSE /\ resolution_stack' = Append(resolution_stack, c.doc)
                /\ statistics' = [statistics EXCEPT !.total_resolutions = @ + 1]
                /\ frames' = Append(frames, NewFrame(c))
                /\ UNCHANGED <<ret, outcomes>>
    /\ call' = <<>>
    /\ UNCHANGED <<max_depth, cache, dependency_graph, result, calls, lookups, reply>>
    /\ UNCHANGED other
    /\ UNCHANGED parser_vars

----------------------------------------------------------------------------
(* _resolve_single_reference and the loaders *)

EmptyMap == [k \in {} |-> <<>>]

\* _generate_cache_key: md5 of "type:path", taken as collision free
CacheKey(ref_type, ref_path) == <<ref_type, ref_path>>

\* key_string.encode() raises UnicodeEncodeError on a lone surrogate
KeyRaises(ref_path) == ref_path \in Unencodable

\* the result stored whatever it is
CacheStore_always(c, key, content) ==
    [k \in DOMAIN c \cup {key} |-> IF k = key THEN content.html ELSE c[k]]

\* if resolved_content: self.cache[cache_key] = resolved_content
CacheStore(c, key, content) ==
    IF Truthy(content)
    THEN [k \in DOMAIN c \cup {key} |-> IF k = key THEN content.html ELSE c[k]]
    ELSE c

\* the set of a document replaced by the new identifier alone
AddEdge_replace(g, doc, ref_path) ==
    [k \in DOMAIN g \cup {doc} |-> IF k = doc THEN {ref_path} ELSE g[k]]

\* no edge recorded
AddEdge_never(g, doc, ref_path) == g

\* self.dependency_graph[doc_path].add(ref_path)
AddEdge(g, doc, ref_path) ==
    [k \in DOMAIN g \cup {doc} |->
        IF k = doc THEN (IF doc \in DOMAIN g THEN g[doc] ELSE {}) \cup {ref_path}
        ELSE g[k]]

\* the depth resolve_document hands to _resolve_single_reference
NextDepth(depth) == depth + 1

\* the comparison off by one
LoaderMayRecurse_inclusive(d) == d <= max_depth

\* if depth < self.max_depth: recurse into the loaded fragment
LoaderMayRecurse(d) == d < max_depth

Value(c) == [kind |-> "value", content |-> c,
             call |-> [doc |-> "", html |-> <<>>, depth |-> 0]]
Nested(doc, h, d) == [kind |-> "call", content |-> None,
                      call |-> [doc |-> doc, html |-> h, depth |-> d]]

\* _load_and_convert_document up to its nested resolve_document call
LoadAndConvert(ref_path, d) ==
    LET f == FS(ref_path)
    IN  IF f.ext = "none" THEN Value(None)
        ELSE IF f.ext = "docx"
             THEN IF f.ok
                  THEN IF LoaderMayRecurse(d)
                       THEN Nested(ref_path, f.content, d)
                       ELSE Value(Some(f.content))
                  ELSE Value(None)
        ELSE IF f.ext = "html" THEN Value(Some(f.content))
        ELSE Value(None)

\* _load_content_block up to the nested resolve_document call
LoadContentBlock(block_name, d) ==
    IF BlockPath(block_name) # ""
    THEN LoadAndConvert(BlockPath(block_name), d)
    ELSE Value(None)

\* a loop that stays on the same reference
NextIndex_stuck(i) == i

\* for ref_type, ref_path in references: the loop moves to the next reference
NextIndex(i) == i + 1

\* history of completed lookups per cache key
Log(l, key, hit, content) ==
    [k \in DOMAIN l \cup {key} |->
        (IF k \in DOMAIN l THEN l[k] ELSE <<>>)
        \o (IF k = key THEN <<[hit |-> hit, frag |-> content]>> ELSE <<>>)]

\* the end of _resolve_single_reference and the rest of the loop body of
\* resolve_document for the current reference; st0 is self.statistics so far
FinishRef(st0, content, hit) ==
    LET f == Top
        ref == f.refs[f.i]
        ok == Truthy(content)
        f2 == [f EXCEPT
                 !.i = NextIndex(@),
                 !.stage = "loop",
                 !.resolved_html =
                     IF ok THEN EmbedContent(@, ref[1], ref[2], content.html) ELSE @,
                 !.stats = IF ok THEN [@ EXCEPT !.resolved = @ + 1]
                           ELSE [@ EXCEPT !.failed = @ + 1],
                 !.done = Append(@, ok)]
    IN  /\ cache' = IF hit THEN cache ELSE CacheStore(cache, CacheKey(ref[1], ref[2]), content)
        /\ statistics' = IF ok THEN st0 ELSE [st0 EXCEPT !.failed_resolutions = @ + 1]
        /\ dependency_graph' =
               IF ok THEN AddEdge(dependency_graph, f.doc, ref[2]) ELSE dependency_graph
        /\ frames' = SetTop(f2)
        /\ lookups' = Log(lookups, CacheKey(ref[1], ref[2]), hit, content)
        /\ call' = <<>>

\* the loader calls resolve_document and waits for it
CallNested(st0, c, stage) ==
    /\ call' = <<c>>
    /\ frames' = SetTop([Top EXCEPT !.stage = stage])
    /\ statistics' = st0
    /\ UNCHANGED <<cache, dependency_graph, lookups>>

\* _load_content_block for the current reference
BlockAttempt(st0) ==
    LET f == Top
        ref == f.refs[f.i]
        r == LoadContentBlock(ref[2], NextDepth(f.depth))
    IN  IF r.kind = "call" THEN CallNested(st0, r.call, "wait_block")
        ELSE FinishRef(st0, r.content, FALSE)

\* _load_and_convert_document gave `content` for the current reference;
\* _load_referenced_content then tries the identifier as a block name
AfterPath(st0, content) ==
    LET f == Top
        ref == f.refs[f.i]
    IN  IF ref[1] = "data_attribute" /\ ~Truthy(content)
        THEN BlockAttempt(st0)
        ELSE FinishRef(st0, content, FALSE)

\* _load_and_convert_document for the current reference
PathAttempt(st0) ==
    LET f == Top
        ref == f.refs[f.i]
        r == LoadAndConvert(ref[2], NextDepth(f.depth))
    IN  IF r.kind = "call" THEN CallNested(st0, r.call, "wait_path")
        ELSE AfterPath(st0, r.content)

\* the pop at the end of the body instead of in a finally clause
PopOnExit_returnOnly(stack, how) == IF how = "return" THEN Front(stack) ELSE stack

\* finally: self.resolution_stack.pop(); how is "return" or "raise"
PopOnExit(stack, how) == Front(stack)

\* an exception leaves the activation on top
Raise ==
    LET f == Top
    IN  /\ resolution_stack' = PopOnExit(resolution_stack, "raise")
        /\ frames' = Front(frames)
        /\ ret' = <<[doc |-> f.doc, depth |-> f.depth, arg |-> f.html, html |-> <<>>,
                     stats |-> ErrorStats("exception"), raised |-> TRUE,
                     refs |-> f.refs, done |-> f.done]>>
        /\ UNCHANGED <<cache, dependency_graph, statistics, call, lookups>>

LookupAllowed == statistics.cache_hits + statistics.cache_misses < MaxLookups

\* one iteration of the for loop of resolve_document, up to the point where
\* the loader calls resolve_document or the reference is done
ResolveSingleReference ==
    /\ call = <<>> /\ ret = <<>> /\ frames # <<>>
    /\ Top.stage = "loop" /\ Top.i <= Len(Top.refs)
    /\ LookupAllowed
    /\ LET f == Top
           ref == f.refs[f.i]
           key == CacheKey(ref[1], ref[2])
       IN  IF KeyRaises(ref[2]) THEN Raise
           ELSE IF key \in DOMAIN cache
           THEN /\ FinishRef([statistics EXCEPT !.cache_hits = @ + 1], Some(cache[key]), TRUE)
                /\ UNCHANGED <<resolution_stack, ret>>
           ELSE /\ IF ref[1] = "content_block"
                   THEN BlockAttempt([statistics EXCEPT !.cache_misses = @ + 1])
                   ELSE PathAttempt([statistics EXCEPT !.cache_misses = @ + 1])
                /\ UNCHANGED <<resolution_stack, ret>>
    /\ UNCHANGED <<max_depth, result, calls, outcomes, reply>>
    /\ UNCHANGED other
    /\ UNCHANGED parser_vars

\* return of resolve_document after the loop, or early when no reference was found
Return ==
    /\ call = <<>> /\ ret = <<>> /\ frames # <<>>
    /\ Top.stage = "loop" /\ Top.i > Len(Top.refs)
    /\ LET f == Top
       IN  ret' = <<[doc |-> f.doc, depth |-> f.depth, arg |-> f.html,
                     html |-> IF f.refs = <<>> THEN f.html ELSE f.resolved_html,
                     stats |-> IF f.refs = <<>> THEN ZeroStats ELSE f.stats,
                     raised |-> FALSE, refs |-> f.refs, done |-> f.done]>>
    /\ resolution_stack' = PopOnExit(resolution_stack, "return")
    /\ frames' = Front(frames)
    /\ UNCHANGED <<max_depth, cache, dependency_graph, statistics, call, result, calls,
                   lookups, outcomes, reply>>
    /\ UNCHANGED other
    /\ UNCHANGED parser_vars

\* the text of the exception handed on as the fragment
Caught_message(r) == IF r.raised THEN Some(<<Txt("error")>>) ELSE Some(r.html)

\* fragment, _ = self.resolve_document(...) inside the loader's try block;
\* except Exception: return None
Caught(r) == IF r.raised THEN None ELSE Some(r.html)

\* the caller takes the returned value: the loader inside the activation below
\* (fragment, _ = self.resolve_document(...); except Exception: return None),
\* or the caller of the top-level call
Resume ==
    /\ ret # <<>>
    /\ ret' = <<>>
    /\ IF frames = <<>>
       THEN /\ result' = ret
            /\ UNCHANGED <<cache, dependency_graph, statistics, frames, call, lookups>>
       ELSE /\ LET content == Caught(ret[1])
               IN  IF Top.stage = "wait_path"
                   THEN AfterPath(statistics, content)
                   ELSE FinishRef(statistics,
                                  IF Top.refs[Top.i][1] = "data_attribute" /\ ~Truthy(content)
                                  THEN None ELSE content,
                                  FALSE)
            /\ UNCHANGED result
    /\ UNCHANGED <<max_depth, resolution_stack, calls, outcomes, reply>>
    /\ UNCHANGED other
    /\ UNCHANGED parser_vars

\* a reset of every lifetime counter
ClearedStatistics_all(st) == [k \in DOMAIN st |-> 0]

\* the counters after clear_cache
ClearedStatistics(st) == [st EXCEPT !.cache_hits = 0, !.cache_misses = 0]

\* clear_cache
ClearCache ==
    /\ Idle
    /\ cache' = EmptyMap
    /\ statistics' = ClearedStatistics(statistics)
    /\ lookups' = EmptyMap
    /\ reply' = <<>>
    /\ UNCHANGED <<max_depth, dependency_graph, resolution_stack, frames, call, ret,
                   result, calls, outcomes>>
    /\ UNCHANGED other
    /\ UNCHANGED parser_vars

\* f"{cache_hits / total * 100:.1f}" in tenths of a percent: rounded to the
\* nearest tenth, a tie to the even one (the error of the float division aside)
CacheHitRate(hits, misses) ==
    LET total == hits + misses
        q == (hits * 1000) \div total
        r == (hits * 1000) % total
    IN  IF total = 0 THEN 0
        ELSE IF 2 * r > total THEN q + 1
        ELSE IF 2 * r = total THEN q + (q % 2)
        ELSE q

\* get_statistics: a copy of the counters with the derived figures
GetStatistics ==
    /\ Idle
    /\ reply' = <<[kind |-> "statistics",
                   stats |-> statistics,
                   cache_hit_rate |-> CacheHitRate(statistics.cache_hits,
                                                   statistics.cache_misses),
                   cache_size |-> Cardinality(DOMAIN cache),
                   dependency_graph_size |-> Cardinality(DOMAIN dependency_graph),
                   graph |-> EmptyMap]>>
    /\ UNCHANGED <<max_depth, cache, dependency_graph, resolution_stack, statistics,
                   frames, call, ret, result, calls, lookups, outcomes>>
    /\ UNCHANGED other
    /\ UNCHANGED parser_vars

\* get_dependency_graph: {k: list(v) for k, v in self.dependency_graph.items()}
GetDependencyGraph ==
    /\ Idle
    /\ reply' = <<[kind |-> "dependency_graph",
                   stats |-> statistics,
                   cache_hit_rate |-> 0,
                   cache_size |-> 0,
                   dependency_graph_size |-> 0,
                   graph |-> dependency_graph]>>
    /\ UNCHANGED <<max_depth, cache, dependency_graph, resolution_stack, statistics,
                   frames, call, ret, result, calls, lookups, outcomes>>
    /\ UNCHANGED other
    /\ UNCHANGED parser_vars

ResolverInit ==
    /\ max_depth \in 0..MaxMaxDepth
    /\ cache = EmptyMap
    /\ dependency_graph = EmptyMap
    /\ resolution_stack = <<>>
    /\ statistics = [cache_hits |-> 0, cache_misses |-> 0, total_resolutions |-> 0,
                     circular_references |-> 0, failed_resolutions |-> 0]
    /\ frames = <<>>
    /\ call = <<>>
    /\ ret = <<>>
    /\ result = <<>>
    /\ calls = 0
    /\ lookups = EmptyMap
    /\ outcomes = {}
    /\ reply = <<>>
    /\ other = NoThread

----------------------------------------------------------------------------
(* AdvancedStructureParser: the documents it is given *)

MAX_NESTING_DEPTH == 10

MaxTables == 11         \* longest chain of tables nested in one another
MaxIfs == 11            \* most IF markers, and most ENDIF markers, in one document
MaxParsedBefore == 2    \* a further parse starts while tables_parsed + conditionals_parsed is below this

\* an element of the soup; cond is its data-conditional attribute in the input
Elem(tag, id, kids) ==
    [tag |-> tag, id |-> id, cond |-> "", marks |-> <<>>, kids |-> kids]

\* a text node (a line of a plain text); marks are the conditional markers its
\* text holds, in order: "if", "else", "endif"
Text(id, marks) ==
    [tag |-> "text", id |-> id, cond |-> "", marks |-> marks, kids |-> <<>>]

\* <div data-conditional="if"> kids </div> already in the input
CondDiv(id, kids) ==
    [tag |-> "div", id |-> id, cond |-> "if", marks |-> <<>>, kids |-> kids]

\* document: html says whether it holds both '<' and '>'
Doc(html, kids) == [html |-> html, kids |-> kids]

EmptyDoc == Doc(FALSE, <<>>)

RECURSIVE TableChain(_, _)
\* tables k..n, each in the only cell of the one before
TableChain(k, n) ==
    IF k > n THEN <<>>
    ELSE <<Elem("table", <<"t", k>>,
                <<Elem("tr", <<"r", k>>,
                       <<Elem("td", <<"c", k>>, TableChain(k + 1, n))>>)>>)>>

\* text j of n + m: the first n hold an IF marker, the others an ENDIF marker
IfText(j, n) == Text(<<"x", j>>, IF j <= n THEN <<"if">> ELSE <<"endif">>)

\* n paragraphs with an IF marker followed by m with an ENDIF marker
IfParagraphs(n, m) == [j \in 1..(n + m) |-> Elem("p", <<"p", j>>, <<IfText(j, n)>>)]

\* the same as lines of a plain text
IfLines(n, m) == [j \in 1..(n + m) |-> IfText(j, n)]

P(j, marks) == Elem("p", <<"p", j>>, <<Text(<<"x", j>>, marks)>>)

\* two tables side by side, the first with two cells that hold tables
Siblings ==
    <<Elem("table", <<"t", 1>>,
           <<Elem("tr", <<"r", 1>>,
                  <<Elem("td", <<"c", 1>>, TableChain(2, 3)),
                    Elem("th", <<"c", 4>>,
                         <<Elem("table", <<"t", 4>>, <<>>), Text(<<"x", 1>>, <<>>)>>)>>)>>),
      Elem("table", <<"t", 5>>, <<>>)>>

\* a whole page: the tables are below <body>, not below the soup
Page ==
    <<Elem("html", <<"h", 0>>,
           <<Elem("head", <<"h", 1>>, <<>>),
             Elem("body", <<"h", 2>>,
                  TableChain(1, 2) \o <<P(1, <<"if">>), P(2, <<"endif">>)>>)>>)>>

\* a conditional div of the input that holds a table, beside an open IF
Mixed ==
    <<CondDiv(<<"d", 1>>, TableChain(1, 1)), P(1, <<"if">>), P(2, <<"if">>),
      P(3, <<"else">>)>>

FixedDocs ==
    {Doc(TRUE, Siblings), Doc(TRUE, Page), Doc(TRUE, Mixed),
     Doc(TRUE, <<P(1, <<"if">>), P(2, <<"else">>), P(3, <<"endif">>)>>),
     Doc(TRUE, <<P(1, <<"else">>), P(2, <<"endif">>), P(3, <<"if">>)>>),
     Doc(TRUE, <<P(1, <<"if", "endif">>)>>),
     Doc(TRUE, <<P(1, <<"if">>), P(2, <<"if", "else", "endif">>), P(3, <<>>),
                 P(4, <<"endif">>)>>),
     Doc(TRUE, <<P(1, <<"if">>)>> \o TableChain(1, 1) \o <<P(2, <<"endif">>)>>)}

\* the documents a caller has parsed
ParserDocs ==
    {EmptyDoc}
    \cup {Doc(TRUE, TableChain(1, n)) : n \in 1..MaxTables}
    \cup {Doc(TRUE, IfParagraphs(n, m)) : n \in 1..MaxIfs, m \in 0..MaxIfs}
    \cup {Doc(TRUE, IfParagraphs(0, 1))}
    \cup {Doc(FALSE, IfLines(n, m)) : n \in 0..1, m \in 0..1}
    \cup FixedDocs

----------------------------------------------------------------------------
(* the soup *)

RECURSIVE FindAllTags(_, _)
\* find_all(tags): the elements below `kids` with one of the tags, in document order
FindAllTags(kids, tags) ==
    IF kids = <<>> THEN <<>>
    ELSE LET x == Head(kids)
         IN  (IF x.tag \in tags THEN <<x>> ELSE <<>>)
             \o FindAllTags(x.kids, tags) \o FindAllTags(Tail(kids), tags)

\* find_all(tags, recursive=False)
FindDirect(kids, tags) == SelectSeq(kids, LAMBDA x : x.tag \in tags)

\* the element of a set of one: used to work an argument out once, {f(v) : v \in {e}}
Only(S) == CHOOSE r \in S : TRUE

\* elem[name] = value
SetAttr(a, id, name, value) ==
    Only({[k \in DOMAIN av \cup {id} |->
              IF k # id THEN av[k]
              ELSE IF id \notin DOMAIN av THEN name :> value
              ELSE [n \in DOMAIN av[id] \cup {name} |->
                       IF n = name THEN value ELSE av[id][n]]] : av \in {a}})

\* elem.get(name, default)
GetAttr(a, id, name, default) ==
    IF id \in DOMAIN a /\ name \in DOMAIN a[id] THEN a[id][name] ELSE default

RECURSIVE SetAttrs(_, _, _, _)
\* the same attribute on each element of a sequence
SetAttrs(a, elems, name, value) ==
    IF elems = <<>> THEN a
    ELSE SetAttrs(SetAttr(a, Head(elems).id, name, value), Tail(elems), name, value)

RECURSIVE InputAttrs(_, _)
\* the attributes the parsed input has: data-conditional on its conditional divs
InputAttrs(a, elems) ==
    IF elems = <<>> THEN a
    ELSE LET x == Head(elems)
         IN  InputAttrs(IF x.cond # "" THEN SetAttr(a, x.id, "data-conditional", x.cond)
                        ELSE a,
                        Tail(elems))

AllTags == {"table", "tr", "td", "th", "p", "div", "html", "head", "body", "text"}

\* BeautifulSoup(html, 'html.parser')
Soup(doc) == InputAttrs(EmptyMap, FindAllTags(doc.kids, AllTags))

Has(marks, m) == \E j \in 1..Len(marks) : marks[j] = m

\* the branch of the if / elif chain of _process_conditional_blocks a text takes
Classify(marks) ==
    IF Has(marks, "if") THEN "if"
    ELSE IF Has(marks, "else") THEN "else"
    ELSE IF Has(marks, "endif") THEN "endif"
    ELSE "none"

----------------------------------------------------------------------------
(* StructureNode *)

Node(type, depth, c, attributes, info) ==
    [type |-> type, depth |-> depth, content |-> c, children |-> <<>>,
     attributes |-> attributes, conditional_info |-> info]

RootNode == Node("section", 0, <<"document_root", 0>>, EmptyMap, EmptyMap)

MaxOf(S) == Only({CHOOSE m \in Sv : \A x \in Sv : x <= m : Sv \in {S}})

\* the depth of the node itself, whatever is below it
CalculateMaxDepth_own(node) == node.depth

RECURSIVE CalculateMaxDepth(_)
\* _calculate_max_depth
CalculateMaxDepth(node) ==
    IF node.children = <<>> THEN node.depth
    ELSE MaxOf({CalculateMaxDepth(node.children[j]) : j \in 1..Len(node.children)})

RECURSIVE Nodes(_)
\* the nodes of a tree, parents before children
Nodes(node) ==
    LET RECURSIVE Of(_)
        Of(cs) == IF cs = <<>> THEN <<>> ELSE Nodes(Head(cs)) \o Of(Tail(cs))
    IN  <<[node EXCEPT !.children = <<>>]>> \o Of(node.children)

\* node.conditional_info and not node.conditional_info.get('closed', True)
Unclosed(node) ==
    /\ node.type = "conditional"
    /\ DOMAIN node.conditional_info # {}
    /\ ~(IF "closed" \in DOMAIN node.conditional_info
         THEN node.conditional_info["closed"] ELSE TRUE)

\* _find_unclosed_conditionals
FindUnclosedConditionals(node) == SelectSeq(Nodes(node), Unclosed)

\* _find_invalid_nesting: the warnings, as <<kind, depth>>
FindInvalidNesting(node) ==
    LET bad == SelectSeq(Nodes(node),
                         LAMBDA x : \/ x.type = "table" /\ x.depth > 5
                                    \/ x.type = "mixed" /\ x.depth > 3)
    IN  [j \in 1..Len(bad) |->
            <<IF bad[j].type = "table" THEN "table_deep" ELSE "mixed_deep", bad[j].depth>>]

CountNodes(node) == Len(Nodes(node))

CountByType(node, type) == Len(SelectSeq(Nodes(node), LAMBDA x : x.type = type))

NoLocals == [text_nodes |-> <<>>, i |-> 0, conditional_stack |-> <<>>, current |-> 0]

ParserInit ==
    /\ parser_statistics = [max_depth_reached |-> 0, tables_parsed |-> 0,
                            conditionals_parsed |-> 0, nested_structures |-> 0,
                            complex_structures |-> 0]
    /\ document = EmptyDoc
    /\ attrs = EmptyMap
    /\ root = RootNode
    /\ activations = <<>>
    /\ conditionals = NoLocals
    /\ pc = "idle"
    /\ parsed = <<>>
    /\ validation = <<>>
    /\ stats_reply = <<>>

Init == ResolverInit /\ ParserInit

Next ==
    \/ \E doc \in TopDocs, depth \in DepthArgs : TopCall(doc, depth)
    \/ Enter
    \/ ResolveSingleReference
    \/ Return
    \/ Resume
    \/ ClearCache
    \/ GetStatistics
    \/ GetDependencyGraph

Spec == Init /\ [][Next]_vars

\* the interpreter keeps running the call in progress
SpecFair ==
    /\ Spec
    /\ WF_vars(Enter) /\ WF_vars(ResolveSingleReference)
    /\ WF_vars(Return) /\ WF_vars(Resume)

----------------------------------------------------------------------------
(* Two callers on one resolver: no lock guards the attributes of the        *)
(* instance, so a second thread may run its own resolve_document between    *)
(* two steps of the first.  frames, call, ret, result and outcomes are the  *)
(* locals of the running thread; those of the thread that waits are kept in *)
(* `other`.                                                                 *)

\* the documents the two callers resolve
SharedDocs == {"A", "LH"}

\* the locals of the running thread
Running == [frames |-> frames, call |-> call, ret |-> ret, result |-> result,
            outcomes |-> outcomes]

InProgress(t) == t.frames # <<>> \/ t.call # <<>> \/ t.ret # <<>>

\* the interpreter hands the processor to the other thread between two steps
Switch ==
    /\ InProgress(Running) \/ InProgress(other)
    /\ frames' = other.frames
    /\ call' = other.call
    /\ ret' = other.ret
    /\ result' = other.result
    /\ outcomes' = other.outcomes
    /\ other' = Running
    /\ UNCHANGED <<max_depth, cache, dependency_graph, resolution_stack, statistics,
                   calls, lookups, reply>>
    /\ UNCHANGED parser_vars

SharedNext ==
    \/ \E doc \in SharedDocs : TopCall(doc, 0)
    \/ Enter
    \/ ResolveSingleReference
    \/ Return
    \/ Resume
    \/ Switch

SharedSpec == Init /\ [][SharedNext]_vars

----------------------------------------------------------------------------
(* AdvancedStructureParser: parse_document_structure *)

ParserIdle == pc = "idle"

\* work counted so far; a caller goes on parsing while it is below the bound
Counted == parser_statistics.tables_parsed + parser_statistics.conditionals_parsed

\* an activation of _process_nested_tables(soup, parent, depth); parent is the
\* node of the activation below, or root
Activation(kids, depth) ==
    [kids |-> kids, depth |-> depth, stage |-> "entry", tables |-> <<>>, ti |-> 1,
     node |-> RootNode, cells |-> <<>>, ci |-> 1]

Cur == activations[Len(activations)]
SetCur(f) == [activations EXCEPT ![Len(activations)] = f]

RECURSIVE MarkLines(_, _)
\* _parse_text_structure: a comment before each line that holds a marker
MarkLines(a, lines) ==
    IF lines = <<>> THEN a
    ELSE MarkLines(IF Head(lines).marks # <<>>
                   THEN SetAttr(a, Head(lines).id, "comment", "CONDITIONAL") ELSE a,
                   Tail(lines))

\* what parse_document_structure returns: (root, enhanced_html)
Parsed(r, kids, a) == [root |-> r, enhanced |-> [kids |-> kids, attrs |-> a]]

\* parse_document_structure(document) up to the call of _process_nested_tables;
\* a plain text is parsed and returned in this step
ParseCall(doc) ==
    /\ ParserIdle
    /\ Counted < MaxParsedBefore
    /\ document' = doc
    /\ root' = RootNode
    /\ validation' = <<>>
    /\ conditionals' = NoLocals
    /\ IF doc.kids = <<>>
       THEN /\ parsed' = <<Parsed(RootNode, <<>>, EmptyMap)>>
            /\ attrs' = EmptyMap
            /\ UNCHANGED <<parser_statistics, activations, pc>>
       ELSE IF doc.html
       THEN /\ attrs' = Soup(doc)
            /\ activations' = <<Activation(doc.kids, 0)>>
            /\ pc' = "tables"
            /\ parsed' = <<>>
            /\ UNCHANGED parser_statistics
       ELSE /\ attrs' = MarkLines(EmptyMap, doc.kids)
            /\ parser_statistics' =
                   [parser_statistics EXCEPT
                      !.conditionals_parsed =
                          @ + Len(SelectSeq(doc.kids, LAMBDA x : x.marks # <<>>)),
                      !.max_depth_reached = CalculateMaxDepth(RootNode)]
            /\ parsed' = <<Parsed(RootNode, doc.kids, attrs')>>
            /\ UNCHANGED <<activations, pc>>
    /\ UNCHANGED stats_reply
    /\ UNCHANGED resolver_vars

\* the guard left out
DepthReached_never(depth) == FALSE

\* if depth >= self.MAX_NESTING_DEPTH: return
DepthReached(depth) == depth >= MAX_NESTING_DEPTH

\* the head of _process_nested_tables
TablesEntry ==
    /\ pc = "tables" /\ activations # <<>> /\ Cur.stage = "entry"
    /\ IF DepthReached(Cur.depth)
       THEN activations' = Front(activations)
       ELSE activations' = SetCur([Cur EXCEPT !.stage = "table",
                                              !.tables = FindDirect(Cur.kids, {"table"})])
    /\ UNCHANGED <<parser_statistics, document, attrs, root, conditionals, pc, parsed,
                   validation>>
    /\ UNCHANGED stats_reply
    /\ UNCHANGED resolver_vars

\* dict(table.attrs)
AttrsOf(a, id) == IF id \in DOMAIN a THEN a[id] ELSE EmptyMap

\* the loop body up to the loop over the cells
TableBegin ==
    /\ pc = "tables" /\ activations # <<>>
    /\ Cur.stage = "table" /\ Cur.ti <= Len(Cur.tables)
    /\ LET table == Cur.tables[Cur.ti]
           nested == FindAllTags(table.kids, {"table"}) # <<>>
       IN  /\ parser_statistics' =
                  [parser_statistics EXCEPT
                     !.tables_parsed = @ + 1,
                     !.nested_structures = IF nested THEN @ + 1 ELSE @]
           /\ activations' =
                  SetCur([Cur EXCEPT
                            !.stage = "cells",
                            !.node = Node("table", Cur.depth + 1, table.id,
                                          AttrsOf(attrs, table.id), EmptyMap),
                            !.cells = IF nested THEN FindAllTags(table.kids, {"td", "th"})
                                      ELSE <<>>,
                            !.ci = 1])
    /\ UNCHANGED <<document, attrs, root, conditionals, pc, parsed, validation>>
    /\ UNCHANGED stats_reply
    /\ UNCHANGED resolver_vars

\* for cell in table.find_all(['td', 'th']): one cell
CellStep ==
    /\ pc = "tables" /\ activations # <<>>
    /\ Cur.stage = "cells" /\ Cur.ci <= Len(Cur.cells)
    /\ LET cell == Cur.cells[Cur.ci]
           waiting == [Cur EXCEPT !.ci = @ + 1]
       IN  IF FindDirect(cell.kids, {"table"}) # <<>>
           THEN activations' = Append(SetCur(waiting), Activation(cell.kids, Cur.depth + 1))
           ELSE activations' = SetCur(waiting)
    /\ UNCHANGED <<parser_statistics, document, attrs, root, conditionals, pc, parsed,
                   validation>>
    /\ UNCHANGED stats_reply
    /\ UNCHANGED resolver_vars

\* the attributes of b written over those of a, element by element
Merge(a, b) ==
    Only({[id \in DOMAIN av \cup DOMAIN bv |->
              IF id \notin DOMAIN bv THEN av[id]
              ELSE IF id \notin DOMAIN av THEN bv[id]
              ELSE [n \in DOMAIN av[id] \cup DOMAIN bv[id] |->
                       IF n \in DOMAIN bv[id] THEN bv[id][n] ELSE av[id][n]]] :
          av \in {a}, bv \in {b}})

\* has_list or has_table or has_multiple_paragraphs
ComplexCell(cell) ==
    \/ FindAllTags(cell.kids, {"ul", "ol", "table"}) # <<>>
    \/ Len(FindAllTags(cell.kids, {"p"})) > 1

\* _preserve_cell_content(cell, depth): what it sets on a complex cell
PreserveCell(cell, depth) ==
    ("data-complex-content" :> "true") @@ ("data-content-depth" :> depth)
    @@ (IF FindAllTags(cell.kids, {"table"}) # <<>>
        THEN ("data-has-nested-table" :> "true") ELSE EmptyMap)

\* the ids of a sequence of elements
Ids(elems) == {elems[j].id : j \in 1..Len(elems)}

\* what the complex cells cx get
CellAttrs(cx, depth) ==
    [id \in Ids(cx) |-> PreserveCell(cx[CHOOSE j \in 1..Len(cx) : cx[j].id = id], depth)]

\* for list_elem in cell.find_all(['ul', 'ol']), for the cells cx
ListAttrs(cx) ==
    [id \in UNION {Ids(FindAllTags(cx[j].kids, {"ul", "ol"})) : j \in 1..Len(cx)} |->
        "data-preserved-list" :> "true"]

\* _preserve_cell_content for each of the cells: the cells set their own
\* attributes, and the same one on the lists below them
PreserveCells(a, cells, depth) ==
    Only({Merge(Merge(a, CellAttrs(cx, depth)), ListAttrs(cx)) :
          cx \in {SelectSeq(cells, ComplexCell)}})

\* parent.children.append(node): the parent is the node of the activation
\* below the current one
AppendToParent(acts, node) ==
    [acts EXCEPT ![Len(acts) - 1].node.children = Append(@, node)]

\* table['data-nesting-level'], table['data-structure-type'] and
\* _preserve_cell_content for each cell below the table
TableAttrs(a, table, depth) ==
    LET nested == FindAllTags(table.kids, {"table"}) # <<>>
        of_table == ("data-nesting-level" :> depth)
                    @@ ("data-structure-type" :>
                            IF nested THEN "nested-table" ELSE "simple-table")
    IN  PreserveCells(Merge(a, table.id :> of_table),
                      FindAllTags(table.kids, {"td", "th"}), depth)

\* the activation moves to its next table
NextTable(f) == [f EXCEPT !.stage = "table", !.ti = @ + 1]

\* the rest of the loop body: the attributes of the table and of its cells,
\* and the node appended to the parent
TableEnd ==
    /\ pc = "tables" /\ activations # <<>>
    /\ Cur.stage = "cells" /\ Cur.ci > Len(Cur.cells)
    /\ attrs' = TableAttrs(attrs, Cur.tables[Cur.ti], Cur.depth + 1)
    /\ IF Len(activations) = 1
       THEN /\ root' = [root EXCEPT !.children = Append(@, Cur.node)]
            /\ activations' = SetCur(NextTable(Cur))
       ELSE /\ activations' = AppendToParent(SetCur(NextTable(Cur)), Cur.node)
            /\ UNCHANGED root
    /\ UNCHANGED <<parser_statistics, document, conditionals, pc, parsed, validation>>
    /\ UNCHANGED stats_reply
    /\ UNCHANGED resolver_vars

\* the loop over the tables is over: the activation returns
TablesReturn ==
    /\ pc = "tables" /\ activations # <<>>
    /\ Cur.stage = "table" /\ Cur.ti > Len(Cur.tables)
    /\ activations' = Front(activations)
    /\ UNCHANGED <<parser_statistics, document, attrs, root, conditionals, pc, parsed,
                   validation>>
    /\ UNCHANGED stats_reply
    /\ UNCHANGED resolver_vars

\* _process_nested_tables(soup, parent) has returned: _process_conditional_blocks
\* starts with soup.find_all(string=True)
TablesDone ==
    /\ pc = "tables" /\ activations = <<>>
    /\ pc' = "conditionals"
    /\ conditionals' = [text_nodes |-> FindAllTags(document.kids, {"text"}), i |-> 1,
                        conditional_stack |-> <<>>, current |-> 0]
    /\ UNCHANGED <<parser_statistics, document, attrs, root, activations, parsed,
                   validation>>
    /\ UNCHANGED stats_reply
    /\ UNCHANGED resolver_vars

\* text_node.wrap(soup.new_tag('div', data-conditional=kind, data-depth=depth)):
\* the wrapper is filed under the text node it wraps
Wrapper(a, id, kind, depth) ==
    SetAttr(SetAttr(a, id, "data-conditional", kind), id, "data-depth", depth)

\* one text node of the loop of _process_conditional_blocks; current is the
\* place of current_conditional in conditional_stack, 0 for None
ConditionalStep ==
    /\ pc = "conditionals" /\ conditionals.i <= Len(conditionals.text_nodes)
    /\ LET c == conditionals
           x == c.text_nodes[c.i]
           kind == Classify(x.marks)
           stack == c.conditional_stack
           node == Node("conditional", Len(stack) + 1, x.id, EmptyMap,
                        [type |-> "if_then", condition |-> x.id, branches |-> <<>>])
       IN  CASE kind = "if" ->
                  /\ parser_statistics' =
                         [parser_statistics EXCEPT !.conditionals_parsed = @ + 1]
                  /\ conditionals' = [c EXCEPT !.i = @ + 1,
                                               !.conditional_stack = Append(stack, node),
                                               !.current = Len(stack) + 1]
                  /\ attrs' = SetAttr(Wrapper(attrs, x.id, "if", Len(stack) + 1),
                                      x.id, "data-condition", x.id)
                  /\ UNCHANGED root
             [] kind = "else" /\ c.current # 0 ->
                  /\ conditionals' =
                         [c EXCEPT !.i = @ + 1,
                                   !.conditional_stack[c.current].conditional_info =
                                       [@ EXCEPT !.type = "if_then_else",
                                                 !.branches = Append(@, "else")]]
                  /\ attrs' = Wrapper(attrs, x.id, "else", Len(stack))
                  /\ UNCHANGED <<parser_statistics, root>>
             [] kind = "endif" /\ stack # <<>> ->
                  /\ root' = [root EXCEPT !.children = Append(@, stack[Len(stack)])]
                  /\ conditionals' = [c EXCEPT !.i = @ + 1,
                                               !.conditional_stack = Front(stack),
                                               !.current = Len(stack) - 1]
                  /\ attrs' = Wrapper(attrs, x.id, "endif", Len(stack))
                  /\ UNCHANGED parser_statistics
             [] OTHER ->
                  /\ conditionals' = [c EXCEPT !.i = @ + 1]
                  /\ UNCHANGED <<parser_statistics, attrs, root>>
    /\ UNCHANGED <<document, activations, pc, parsed, validation>>
    /\ UNCHANGED stats_reply
    /\ UNCHANGED resolver_vars

\* for elem in soup.find_all(attrs={'data-conditional': True}): the elements
\* with int(elem.get('data-depth', 0)) > 1 get data-nested-conditional
MarkNested(a) ==
    [id \in DOMAIN a |->
        IF "data-conditional" \in DOMAIN a[id] /\ GetAttr(a, id, "data-depth", 0) > 1
        THEN [n \in DOMAIN a[id] \cup {"data-nested-conditional"} |->
                 IF n = "data-nested-conditional" THEN "true" ELSE a[id][n]]
        ELSE a[id]]

\* the end of _process_conditional_blocks, after its loop
ConditionalsEnd ==
    /\ pc = "conditionals" /\ conditionals.i > Len(conditionals.text_nodes)
    /\ IF Len(conditionals.conditional_stack) > 1
       THEN /\ parser_statistics' =
                   [parser_statistics EXCEPT !.complex_structures = @ + 1]
            /\ attrs' = MarkNested(attrs)
       ELSE UNCHANGED <<parser_statistics, attrs>>
    /\ pc' = "mixed"
    /\ UNCHANGED <<document, root, activations, conditionals, parsed, validation>>
    /\ UNCHANGED stats_reply
    /\ UNCHANGED resolver_vars

\* soup.find_all('div', attrs={'data-conditional': 'if'}) that hold a table: the
\* wrappers made by _process_conditional_blocks hold a text node only
ConditionalDivs(a, kids) ==
    SelectSeq(FindAllTags(kids, {"div"}),
              LAMBDA d : /\ GetAttr(a, d.id, "data-conditional", "") = "if"
                         /\ FindAllTags(d.kids, {"table"}) # <<>>)

RECURSIVE MixedRun(_, _)
\* the loop of _process_mixed_content over the divs; s is [stats, attrs, root]
MixedRun(s, divs) ==
    IF divs = <<>> THEN s
    ELSE LET d == Head(divs)
             tables == FindAllTags(d.kids, {"table"})
             node == Node("mixed", s.root.depth + 1, <<"conditional_with_table", 0>>,
                          [condition |-> GetAttr(s.attrs, d.id, "data-condition", ""),
                           table_count |-> Len(tables)],
                          EmptyMap)
             a1 == SetAttr(s.attrs, d.id, "data-structure-type", "mixed-conditional-table")
             a2 == SetAttrs(a1, tables, "data-within-conditional", "true")
             a3 == SetAttrs(a2, tables, "data-conditional-depth",
                            GetAttr(s.attrs, d.id, "data-depth", 1))
         IN  MixedRun([stats |-> [s.stats EXCEPT !.complex_structures = @ + 1],
                       attrs |-> a3,
                       root |-> [s.root EXCEPT !.children = Append(@, node)]],
                      Tail(divs))

\* _process_mixed_content
ProcessMixedContent ==
    /\ pc = "mixed"
    /\ LET s == MixedRun([stats |-> parser_statistics, attrs |-> attrs, root |-> root],
                         ConditionalDivs(attrs, document.kids))
       IN  /\ parser_statistics' = s.stats
           /\ attrs' = s.attrs
           /\ root' = s.root
    /\ pc' = "metadata"
    /\ UNCHANGED <<document, activations, conditionals, parsed, validation>>
    /\ UNCHANGED stats_reply
    /\ UNCHANGED resolver_vars

\* _add_structure_metadata: the counters as they stand written on soup.body,
\* the style element appended to soup.head
Metadata(a, kids, st) ==
    LET bodies == FindAllTags(kids, {"body"})
        heads == FindAllTags(kids, {"head"})
        b == bodies[1].id
        a1 == SetAttr(a, b, "data-structure-parsed", "true")
        a2 == SetAttr(a1, b, "data-max-depth", st.max_depth_reached)
        a3 == SetAttr(a2, b, "data-table-count", st.tables_parsed)
        a4 == SetAttr(a3, b, "data-conditional-count", st.conditionals_parsed)
        a5 == IF bodies # <<>> THEN a4 ELSE a
    IN  IF heads # <<>> THEN SetAttr(a5, heads[1].id, "style", "structure") ELSE a5

\* the end of _parse_html_structure and of parse_document_structure
AddStructureMetadata ==
    /\ pc = "metadata"
    /\ attrs' = Metadata(attrs, document.kids, parser_statistics)
    /\ parser_statistics' =
           [parser_statistics EXCEPT !.max_depth_reached = CalculateMaxDepth(root)]
    /\ parsed' = <<Parsed(root, document.kids, attrs')>>
    /\ pc' = "idle"
    /\ UNCHANGED <<document, root, activations, conditionals, validation>>
    /\ UNCHANGED stats_reply
    /\ UNCHANGED resolver_vars

\* validate_structure(root): errors and warnings as <<kind, number>>
Validate(r) ==
    LET max_depth_found == CalculateMaxDepth(r)
        open_conditionals == FindUnclosedConditionals(r)
    IN  [is_valid |-> open_conditionals = <<>>,
         errors |-> IF open_conditionals # <<>>
                    THEN <<<<"unclosed_conditionals", Len(open_conditionals)>>>>
                    ELSE <<>>,
         warnings |-> (IF max_depth_found > MAX_NESTING_DEPTH
                       THEN <<<<"depth_exceeds", max_depth_found>>>> ELSE <<>>)
                      \o FindInvalidNesting(r),
         structure_summary |->
             [total_nodes |-> CountNodes(r),
              max_depth |-> max_depth_found,
              table_nodes |-> CountByType(r, "table"),
              conditional_nodes |-> CountByType(r, "conditional"),
              mixed_nodes |-> CountByType(r, "mixed")]]

\* the caller validates the tree it was given
ValidateStructure ==
    /\ ParserIdle /\ parsed # <<>> /\ validation = <<>>
    /\ validation' = <<Validate(parsed[1].root)>>
    /\ UNCHANGED <<parser_statistics, document, attrs, root, activations, conditionals,
                   pc, parsed>>
    /\ UNCHANGED stats_reply
    /\ UNCHANGED resolver_vars

\* the caller reads the counters: get_statistics returns self.statistics.copy()
ParserGetStatistics ==
    /\ ParserIdle /\ parsed # <<>>
    /\ stats_reply' = <<parser_statistics>>
    /\ UNCHANGED <<parser_statistics, document, attrs, root, activations, conditionals,
                   pc, parsed, validation>>
    /\ UNCHANGED resolver_vars

\* a parser on its own: the resolver is constructed and left alone
ParserOnlyInit == ResolverInit /\ max_depth = 0 /\ ParserInit

ParserNext ==
    \/ \E doc \in ParserDocs : ParseCall(doc)
    \/ TablesEntry
    \/ TableBegin
    \/ CellStep
    \/ TableEnd
    \/ TablesReturn
    \/ TablesDone
    \/ ConditionalStep
    \/ ConditionalsEnd
    \/ ProcessMixedContent
    \/ AddStructureMetadata
    \/ ValidateStructure

ParserSpec == ParserOnlyInit /\ [][ParserNext]_vars

\* a caller that also reads the counters between its calls
ParserStatsNext == ParserNext \/ ParserGetStatistics

ParserStatsSpec == ParserOnlyInit /\ [][ParserStatsNext]_vars

\* the next step of the parse in progress: at most one of these is enabled
ParserStep ==
    \/ TablesEntry \/ TableBegin \/ CellStep \/ TableEnd \/ TablesReturn \/ TablesDone
    \/ ConditionalStep \/ ConditionalsEnd \/ ProcessMixedContent \/ AddStructureMetadata

\* the interpreter keeps running the parse in progress
ParserSpecFair == ParserSpec /\ WF_vars(ParserStep)

----------------------------------------------------------------------------
(* Properties *)

RECURSIVE WrapperSources(_)
\* the data-source values of all wrappers in an HTML text
WrapperSources(h) ==
    IF h = <<>> THEN {}
    ELSE LET x == Head(h)
         IN  (IF x.t = "wrap" THEN {x.id} \cup WrapperSources(x.body) ELSE {})
             \cup WrapperSources(Tail(h))

TopLevelDone == Idle /\ result # <<>>

\* C1: every top-level resolve_document call comes back to its caller (by
\* return or by an exception), whatever the reference graph: self reference
\* (S), mutual reference (A, B) and a chain longer than max_depth (D1..D5).
C1_Terminates == (call # <<>> /\ frames = <<>>) ~> TopLevelDone

C1_Witness ==
    /\ TopLevelDone
    /\ "circular_reference" \in outcomes
    /\ ~result[1].raised

\* C2: on a fresh resolver, resolve_document("A", htmlA) with A -> B -> A
\* returns, circular_references is at least 1, and A's content is not
\* embedded again inside B (no wrapper with data-source A in the result).
C2_CycleEdgeUnexpanded ==
    (/\ TopLevelDone /\ calls = 1 /\ max_depth >= 3
     /\ result[1].doc = "A" /\ result[1].depth = 0)
    => /\ ~result[1].raised
       /\ statistics.circular_references >= 1
       /\ "A" \notin WrapperSources(result[1].html)

\* C3: resolution_stack never holds an identifier twice, and no two running
\* activations of resolve_document work on the same identifier.
C3_NoReentry ==
    /\ \A i, j \in 1..Len(resolution_stack) :
           i # j => resolution_stack[i] # resolution_stack[j]
    /\ \A i, j \in 1..Len(frames) : i # j => frames[i].doc # frames[j].doc

C3_Witness ==
    /\ ret # <<>>
    /\ ret[1].stats.error = "circular_reference"
    /\ \E j \in 1..Len(resolution_stack) : resolution_stack[j] = ret[1].doc
    /\ frames # <<>>

\* C4: resolution_stack holds exactly the identifiers of the activations still
\* running, so each activation that pushed has popped when it has left, by
\* return, early return or exception; after a top-level call it is empty.
C4_PoppedOnExit ==
    /\ Len(resolution_stack) = Len(frames)
    /\ \A i \in 1..Len(frames) : resolution_stack[i] = frames[i].doc
    /\ TopLevelDone => resolution_stack = <<>>

C4_Witness ==
    /\ TopLevelDone
    /\ result[1].raised
    /\ resolution_stack = <<>>
    /\ statistics.total_resolutions >= 2

\* C5: resolving the chain D1 -> D2 -> D3 -> D4 -> D5 (4 nested references,
\* max_depth in 1..3) from depth 0 gives a max_depth_exceeded outcome for the
\* branch beyond the bound, resolves the references within the bound and returns.
C5_DepthExceededReported ==
    (/\ TopLevelDone /\ calls = 1 /\ max_depth \in 1..3
     /\ result[1].doc = "D1" /\ result[1].depth = 0)
    => /\ "max_depth_exceeded" \in outcomes
       /\ ~result[1].raised
       /\ result[1].stats.resolved >= 1

\* C6: in a top-level call started with depth 0 on a resolver with
\* max_depth >= 1, no activation has depth > max_depth and resolution_stack
\* is never longer than max_depth.
C6_DepthBound ==
    (max_depth >= 1 /\ frames # <<>> /\ frames[1].depth = 0)
    => /\ \A i \in 1..Len(frames) : frames[i].depth <= max_depth
       /\ Len(resolution_stack) <= max_depth

C6_Witness ==
    /\ max_depth >= 2
    /\ frames # <<>> /\ frames[1].depth = 0
    /\ Len(resolution_stack) = max_depth

\* C7: a call that enters with depth > max_depth, or with its identifier on
\* resolution_stack, returns its html_content unchanged with the flag
\* max_depth_exceeded resp. circular_reference; nothing of the resolver changes
\* but circular_references, which grows by 1 in the circular case.
C7_RejectedCallFrame ==
    [][(/\ call # <<>> /\ call' = <<>>
        /\ (\/ call[1].depth > max_depth
            \/ \E j \in 1..Len(resolution_stack) : resolution_stack[j] = call[1].doc))
       => /\ ret' # <<>>
          /\ ret'[1].html = call[1].html
          /\ ~ret'[1].raised
          /\ ret'[1].stats.shape = "error"
          /\ ret'[1].stats.error = (IF call[1].depth > max_depth
                                    THEN "max_depth_exceeded" ELSE "circular_reference")
          /\ UNCHANGED <<resolution_stack, cache, dependency_graph, frames>>
          /\ statistics' = (IF call[1].depth > max_depth THEN statistics
                            ELSE [statistics EXCEPT !.circular_references = @ + 1])]_vars

C7_Witness ==
    /\ ret # <<>>
    /\ ret[1].stats.error = "max_depth_exceeded"
    /\ ret[1].html = ret[1].arg
    /\ statistics.circular_references >= 1

\* C8: in what an activation returns, every reference it counted as resolved
\* has its matched syntax replaced by a wrapper with data-source equal to the
\* identifier and data-type equal to the kind.
C8_ResolvedAreWrapped ==
    \A r \in {ret[n] : n \in 1..Len(ret)} :
        (~r.raised /\ r.stats.shape = "full")
        => \A p \in 1..Len(r.arg), j \in 1..Len(r.refs) :
               (/\ r.done[j]
                /\ Matches(r.refs[j][1], r.arg[p])
                /\ r.arg[p].id = r.refs[j][2])
               => /\ r.html[p].t = "wrap"
                  /\ r.html[p].id = r.refs[j][2]
                  /\ r.html[p].type = r.refs[j][1]

\* C9: with no clear_cache in between, the first resolution of a (kind,
\* identifier) reference is a cache miss, the second a cache hit, and both
\* give the same fragment.  Stated for references whose first resolution gave
\* a fragment; the claim also covers those that failed.
C9_SecondIsHit ==
    \A k \in DOMAIN lookups :
        (Len(lookups[k]) >= 2 /\ Truthy(lookups[k][1].frag))
        => /\ ~lookups[k][1].hit
           /\ lookups[k][2].hit
           /\ lookups[k][2].frag = lookups[k][1].frag

\* C10: a cache entry, once written, keeps its value until clear_cache.
C10_CacheImmutable ==
    [][\A k \in DOMAIN cache : k \in DOMAIN cache' => cache'[k] = cache[k]]_vars

\* the last top-level call returned an HTML text and full statistics, and the
\* caller then asked for the dependency graph
GraphAfterCall ==
    /\ TopLevelDone
    /\ ~result[1].raised /\ result[1].stats.shape # "error"
    /\ reply # <<>> /\ reply[1].kind = "dependency_graph"

\* get_dependency_graph()[doc], no key read as no edge
EdgesOf(doc) == IF doc \in DOMAIN reply[1].graph THEN reply[1].graph[doc] ELSE {}

\* the identifiers a returned call counted as resolved, and all it found
ResolvedIds(r) == {r.refs[j][2] : j \in {n \in 1..Len(r.refs) : r.done[n]}}
ReferenceIds(r) == {r.refs[j][2] : j \in 1..Len(r.refs)}

C14_NoReferenceFrame ==
    [][LET Kept == /\ UNCHANGED <<cache, dependency_graph>>
                   /\ statistics'.cache_hits = statistics.cache_hits
                   /\ statistics'.cache_misses = statistics.cache_misses
                   /\ statistics'.failed_resolutions = statistics.failed_resolutions
       IN  /\ (call # <<>> /\ Len(frames') > Len(frames) /\ Top'.refs = <<>>) => Kept
           /\ (frames # <<>> /\ Top.refs = <<>> /\ call = <<>> /\ ret = <<>>)
              => /\ Kept
                 /\ Len(frames') < Len(frames)
                 /\ ret' # <<>>
                 /\ ~ret'[1].raised
                 /\ ret'[1].html = Top.html
                 /\ ret'[1].stats.references_found = 0
                 /\ ret'[1].stats.shape = "zero"]_vars

C14_Witness ==
    /\ ret # <<>>
    /\ ret[1].refs = <<>> /\ ret[1].stats.shape = "zero"
    /\ ret[1].arg # <<>> /\ ret[1].html = ret[1].arg
    /\ cache # EmptyMap /\ DOMAIN dependency_graph # {}
    /\ statistics.failed_resolutions > 0

\* the references of a returned call that failed, as indexes into its list
FailedRefs(r) == {j \in 1..Len(r.done) : ~r.done[j]}

\* the markup of every failed reference is in the returned HTML where it was
FailedMarkupKept(r) ==
    \A j \in FailedRefs(r) : \A p \in 1..Len(r.arg) :
        (Matches(r.refs[j][1], r.arg[p]) /\ r.arg[p].id = r.refs[j][2])
            => (p <= Len(r.html) /\ r.html[p] = r.arg[p])

\* a call that ran its loop to the end returns
LoopReturned == ret # <<>> /\ ~ret[1].raised /\ ret[1].stats.shape = "full"

\* this step ends the handling of one reference without content
FailsReference ==
    /\ frames # <<>> /\ Len(frames') = Len(frames)
    /\ Len(frames'[Len(frames')].done) = Len(Top.done) + 1
    /\ ~frames'[Len(frames')].done[Len(Top.done) + 1]

\* C15: a reference whose resolution fails keeps its markup unchanged in the
\* HTML that resolve_document returns, adds exactly one to 'failed' of the
\* call's statistics and exactly one to the lifetime failed_resolutions, which
\* nothing else changes
C15_FailedLeftAndCounted ==
    /\ [](LoopReturned => /\ FailedMarkupKept(ret[1])
                          /\ ret[1].stats.failed = Cardinality(FailedRefs(ret[1])))
    /\ [][IF FailsReference
          THEN /\ statistics'.failed_resolutions = statistics.failed_resolutions + 1
               /\ frames'[Len(frames')].stats.failed = Top.stats.failed + 1
          ELSE statistics'.failed_resolutions = statistics.failed_resolutions]_vars

\* the counting half of C15 alone
FailedCounted ==
    /\ [](LoopReturned => ret[1].stats.failed = Cardinality(FailedRefs(ret[1])))
    /\ [][IF FailsReference
          THEN /\ statistics'.failed_resolutions = statistics.failed_resolutions + 1
               /\ frames'[Len(frames')].stats.failed = Top.stats.failed + 1
          ELSE statistics'.failed_resolutions = statistics.failed_resolutions]_vars

\* the markup half of C15 for every document but W
FailedKeptElsewhere == (LoopReturned /\ ret[1].doc # "W") => FailedMarkupKept(ret[1])


ReferenceKinds ==
    {"double_curly", "content_block", "include_directive", "sharedo_content",
     "data_attribute"}

RECURSIVE InOccurrenceOrder(_)
\* the references of a token sequence, each at the place of its markup
InOccurrenceOrder(toks) ==
    IF toks = <<>> THEN <<>>
    ELSE LET x == Head(toks)
             kinds == {k \in ReferenceKinds : Matches(k, x)}
         IN  (IF kinds = {} THEN <<>> ELSE <<<<CHOOSE k \in kinds : TRUE, x.id>>>>)
             \o InOccurrenceOrder(Tail(toks))

\* C16: _extract_references gives the references in the order in which their
\* markup occurs in the content, whatever their kinds, one entry per
\* occurrence.  Read off every activation, whose reference list is what
\* _extract_references gave for its HTML.
C16_OccurrenceOrder ==
    \A j \in 1..Len(frames) : frames[j].refs = InOccurrenceOrder(Flatten(frames[j].html))

\* what does hold of the list: one entry per occurrence
SameReferences ==
    \A j \in 1..Len(frames) :
        LET want == InOccurrenceOrder(Flatten(frames[j].html))
        IN  \A ref \in {want[n] : n \in 1..Len(want)} \cup
                       {frames[j].refs[n] : n \in 1..Len(frames[j].refs)} :
                Len(SelectSeq(frames[j].refs, LAMBDA x : x = ref))
                    = Len(SelectSeq(want, LAMBDA x : x = ref))


\* this step serves the current reference of the top activation from the cache
ServedFromCache ==
    /\ frames # <<>> /\ Len(frames') = Len(frames)
    /\ statistics'.cache_hits = statistics.cache_hits + 1

\* C17: the from_cache figure of the statistics that resolve_document returns
\* is the number of the call's references that were served from the cache:
\* it starts at 0, every cache hit of the call adds one to it, nothing else
\* changes it, and the call returns it as it then stands.
C17_FromCacheCounted ==
    [][/\ (Len(frames') > Len(frames)) => frames'[Len(frames')].stats.from_cache = 0
       /\ (frames # <<>> /\ Len(frames') = Len(frames)) =>
              frames'[Len(frames')].stats.from_cache =
                  Top.stats.from_cache + (IF ServedFromCache THEN 1 ELSE 0)
       /\ (Len(frames') < Len(frames) /\ ret' # <<>> /\ ret'[1].stats.shape = "full") =>
              ret'[1].stats.from_cache = Top.stats.from_cache]_vars

\* what the code does instead: from_cache is 0 in every statistics returned
FromCacheZero == ret # <<>> => ret[1].stats.from_cache = 0


\* C18: clear_cache empties the cache and sets cache_hits and cache_misses to
\* 0; the dependency graph, the resolution stack, total_resolutions,
\* circular_references and failed_resolutions are after it what they were.
C18_ClearCacheFrame ==
    [][ClearCache =>
          /\ cache' = EmptyMap
          /\ statistics'.cache_hits = 0 /\ statistics'.cache_misses = 0
          /\ dependency_graph' = dependency_graph
          /\ resolution_stack' = resolution_stack
          /\ statistics'.total_resolutions = statistics.total_resolutions
          /\ statistics'.circular_references = statistics.circular_references
          /\ statistics'.failed_resolutions = statistics.failed_resolutions]_vars

\* after clear_cache on a resolver that has resolved references, met a cycle
\* and failed on a reference: every successful resolution stores its fragment
\* and counts a miss, so only clear_cache leads here
C18_Witness ==
    /\ Idle
    /\ cache = EmptyMap /\ lookups = EmptyMap
    /\ statistics.cache_hits = 0 /\ statistics.cache_misses = 0
    /\ \E doc \in DOMAIN dependency_graph : dependency_graph[doc] # {}
    /\ statistics.total_resolutions > 0
    /\ statistics.circular_references > 0
    /\ statistics.failed_resolutions > 0


\* C19: in every step of a resolver used through resolve_document,
\* clear_cache, get_statistics and get_dependency_graph, total_resolutions,
\* circular_references and failed_resolutions do not decrease, cache_hits and
\* cache_misses do not decrease unless the step is clear_cache, and every key
\* of the dependency graph and every edge stay.
C19_Monotone ==
    [][/\ statistics'.total_resolutions >= statistics.total_resolutions
       /\ statistics'.circular_references >= statistics.circular_references
       /\ statistics'.failed_resolutions >= statistics.failed_resolutions
       /\ \/ ClearCache
          \/ /\ statistics'.cache_hits >= statistics.cache_hits
             /\ statistics'.cache_misses >= statistics.cache_misses
       /\ \A doc \in DOMAIN dependency_graph :
              /\ doc \in DOMAIN dependency_graph'
              /\ dependency_graph[doc] \subseteq dependency_graph'[doc]]_vars

\* get_statistics answers after two resolve_document calls and a clear_cache
\* (the cache is empty while the graph is not): all five counters have grown
\* since construction, the cache counters again after the clear_cache, and a
\* document of the graph has more than one edge
C19_Witness ==
    /\ reply # <<>> /\ reply[1].kind = "statistics"
    /\ calls = MaxCalls
    /\ reply[1].stats.total_resolutions > 1
    /\ reply[1].stats.circular_references > 0
    /\ reply[1].stats.failed_resolutions > 0
    /\ reply[1].cache_size = 0 /\ reply[1].stats.cache_hits = 0
    /\ reply[1].dependency_graph_size > 1
    /\ \E doc \in DOMAIN dependency_graph : Cardinality(dependency_graph[doc]) > 1


\* C29: the cache never has more entries than cache_misses counts, every
\* entry is a non-empty fragment, and a reference that is not in the cache
\* was a miss without a fragment every time it was resolved since the last
\* clear_cache.
C29_CacheWithinMisses ==
    /\ Cardinality(DOMAIN cache) <= statistics.cache_misses
    /\ \A k \in DOMAIN cache : cache[k] # <<>>
    /\ \A k \in DOMAIN lookups \ DOMAIN cache :
           \A j \in 1..Len(lookups[k]) :
               ~lookups[k][j].hit /\ ~Truthy(lookups[k][j].frag)

\* a reference that failed twice since the last clear_cache, beside entries
\* in the cache and more misses than entries
C29_Witness ==
    /\ Idle
    /\ Cardinality(DOMAIN cache) >= 2
    /\ statistics.cache_misses > Cardinality(DOMAIN cache)
    /\ \E k \in DOMAIN lookups \ DOMAIN cache : Len(lookups[k]) >= 2


\* the current reference of the top activation is about to be looked up and
\* is not in the cache
Missing ==
    /\ call = <<>> /\ ret = <<>> /\ frames # <<>>
    /\ Top.stage = "loop" /\ Top.i <= Len(Top.refs)
    /\ ~KeyRaises(Top.refs[Top.i][2])
    /\ CacheKey(Top.refs[Top.i][1], Top.refs[Top.i][2]) \notin DOMAIN cache

\* _load_and_convert_document is about to fail for the current reference of
\* the top activation: no file, an unsupported suffix or a failed conversion
\* at the place it is sent to, or an exception of the nested resolve_document
LoaderFails ==
    \/ ret # <<>> /\ ret[1].raised /\ frames # <<>>
    \/ /\ Missing
       /\ LET ref == Top.refs[Top.i]
              place == IF ref[1] = "content_block" THEN BlockPath(ref[2]) ELSE ref[2]
          IN  /\ place # ""
              /\ FS(place).ext \in {"none", "txt"} \/ ~FS(place).ok

\* the failure met is that of the path of a data_attribute reference, which
\* _load_referenced_content then tries as a content block name
BlockStillToTry ==
    /\ Top.refs[Top.i][1] = "data_attribute"
    /\ ret # <<>> => Top.stage = "wait_path"

\* every exception that leaves an activation of resolve_document comes from
\* the cache key of one of its own references, none from a loader
RaisedByKeyOnly ==
    (ret = <<>> /\ ret' # <<>> /\ ret'[1].raised)
    => (frames # <<>> /\ Top.i <= Len(Top.refs) /\ KeyRaises(Top.refs[Top.i][2]))

\* C24 as stated: whenever _load_and_convert_document fails, the activation
\* that called it goes on without an exception and counts the reference as
\* failed.
C24_LoaderFailureCounted ==
    [][/\ RaisedByKeyOnly
       /\ (LoaderFails /\ (call' # call \/ ret' # ret \/ frames' # frames))
          => /\ Len(frames') = Len(frames) /\ ret' = <<>>
             /\ FailsReference]_vars

\* C24 as amended: the same, but a data_attribute reference whose path fails
\* is tried as a content block name before it is counted as failed.
C24_LoaderFailureContained ==
    [][/\ RaisedByKeyOnly
       /\ (LoaderFails /\ (call' # call \/ ret' # ret \/ frames' # frames))
          => /\ Len(frames') = Len(frames) /\ ret' = <<>>
             /\ IF BlockStillToTry /\ BlockPath(Top.refs[Top.i][2]) # ""
                     /\ FS(BlockPath(Top.refs[Top.i][2])).ok
                     /\ FS(BlockPath(Top.refs[Top.i][2])).ext \in {"docx", "html"}
                THEN call' # <<>> \/ Len(frames'[Len(frames')].done) = Len(Top.done) + 1
                ELSE FailsReference]_vars

\* a top-level call for V has returned normally with the references to U
\* (whose nested resolve_document raised), F (conversion failed) and nofile
\* counted as failed
C24_Witness ==
    /\ TopLevelDone
    /\ result[1].doc = "V" /\ result[1].depth = 0 /\ max_depth >= 1
    /\ ~result[1].raised /\ result[1].stats.shape = "full"
    /\ result[1].refs[1][2] = "U" /\ ~result[1].done[1]
    /\ result[1].refs[2][2] = "F" /\ ~result[1].done[2]
    /\ result[1].refs[3][2] = "nofile" /\ ~result[1].done[3]
    /\ result[1].stats.failed >= 3
    /\ statistics.total_resolutions >= 2


RECURSIVE FreshResolve(_, _, _, _, _)
RECURSIVE FreshLoop(_, _, _, _, _, _, _)
RECURSIVE FreshPath(_, _, _, _)

\* _load_and_convert_document(path, d) run to its end with the stack and the
\* cache given: the content it returns and the cache it leaves
FreshPath(path, d, stack, c) ==
    LET r == LoadAndConvert(path, d)
    IN  IF r.kind = "value" THEN [content |-> r.content, cache |-> c]
        ELSE LET n == FreshResolve(r.call.doc, r.call.html, r.call.depth, stack, c)
             IN  [content |-> Caught(n), cache |-> n.cache]

\* _load_content_block run to its end
FreshBlock(name, d, stack, c) ==
    IF BlockPath(name) # "" THEN FreshPath(BlockPath(name), d, stack, c)
    ELSE [content |-> None, cache |-> c]

\* the loader of a reference of the kind given, run to its end
FreshLoad(ref, d, stack, c) ==
    IF ref[1] = "content_block" THEN FreshBlock(ref[2], d, stack, c)
    ELSE IF ref[1] = "data_attribute"
    THEN LET p == FreshPath(ref[2], d, stack, c)
         IN  IF Truthy(p.content) THEN p
             ELSE LET b == FreshBlock(ref[2], d, stack, p.cache)
                  IN  IF Truthy(b.content) THEN b
                      ELSE [content |-> None, cache |-> b.cache]
    ELSE FreshPath(ref[2], d, stack, c)

\* the loop of resolve_document from reference i on; rh is resolved_html
FreshLoop(refs, i, rh, depth, stack, c, doc) ==
    IF i > Len(refs) THEN [html |-> rh, cache |-> c, raised |-> FALSE]
    ELSE LET ref == refs[i]
             key == CacheKey(ref[1], ref[2])
         IN  IF KeyRaises(ref[2]) THEN [html |-> <<>>, cache |-> c, raised |-> TRUE]
             ELSE IF key \in DOMAIN c
             THEN FreshLoop(refs, i + 1, EmbedContent(rh, ref[1], ref[2], c[key]),
                            depth, stack, c, doc)
             ELSE LET r == FreshLoad(ref, NextDepth(depth), stack, c)
                  IN  FreshLoop(refs, i + 1,
                                IF Truthy(r.content)
                                THEN EmbedContent(rh, ref[1], ref[2], r.content.html)
                                ELSE rh,
                                depth, stack, CacheStore(r.cache, key, r.content), doc)

\* resolve_document(doc, h, depth) run to its end as one function of its
\* arguments, the in-flight stack and the cache: what it returns (or raises)
\* and the cache it leaves
FreshResolve(doc, h, depth, stack, c) ==
    IF depth > max_depth \/ (\E j \in 1..Len(stack) : stack[j] = doc)
    THEN [html |-> h, cache |-> c, raised |-> FALSE]
    ELSE LET refs == ExtractReferences(h)
         IN  IF refs = <<>> THEN [html |-> h, cache |-> c, raised |-> FALSE]
             ELSE FreshLoop(refs, 1, h, depth, Append(stack, doc), c, doc)

\* what the call that has returned gives on a resolver just constructed
OnFreshResolver ==
    FreshResolve(result[1].doc, result[1].arg, result[1].depth, <<>>, EmptyMap)

\* the function agrees with the first call of every resolver, step by step
FreshAgrees ==
    (TopLevelDone /\ calls = 1)
    => /\ result[1].raised = OnFreshResolver.raised
       /\ ~result[1].raised => result[1].html = OnFreshResolver.html
       /\ cache # EmptyMap => cache = OnFreshResolver.cache

\* C26: a top-level call returns the HTML that the same call returns on a
\* resolver with an empty cache, whatever earlier calls left in the cache.
C26_CacheTransparent ==
    (TopLevelDone /\ ~result[1].raised) => result[1].html = OnFreshResolver.html


\* the activations of both threads that have entered and not left
InFlight == frames \o other.frames

OnStack(doc) == \E j \in 1..Len(resolution_stack) : resolution_stack[j] = doc

\* a step of the running thread, not a hand-over
OwnStep == other' = other

\* C23: when two top-level calls are interleaved on one resolver, the entry
\* check and the exit pop work on the one shared resolution_stack whoever
\* pushed: a call within the depth limit is rejected as circular exactly when
\* its identifier is on the stack, an exit removes the last element of the
\* stack, and the stack has one element per activation in flight of the two
\* threads together, not the identifiers of one thread's activations.  So an
\* exit can remove the other call's identifier, and a document in no cycle is
\* rejected while the other call has it in flight.
C23_SharedStackSteps ==
    [][/\ (OwnStep /\ call # <<>> /\ call' = <<>> /\ call[1].depth <= max_depth) =>
            IF OnStack(call[1].doc)
            THEN /\ ret' # <<>> /\ ret'[1].stats.error = "circular_reference"
                 /\ resolution_stack' = resolution_stack
                 /\ frames' = frames
            ELSE /\ resolution_stack' = Append(resolution_stack, call[1].doc)
                 /\ ret' = <<>>
       /\ (OwnStep /\ Len(frames') < Len(frames)) =>
            resolution_stack' = Front(resolution_stack)
       /\ Len(resolution_stack') = Len(InFlight')]_vars

\* an exit of one call has removed the identifier of the other: an activation
\* is in flight whose identifier is not on the stack, and the exit removed an
\* identifier that was not its own
C23_Witness ==
    /\ \E j \in 1..Len(InFlight) : ~OnStack(InFlight[j].doc)
    /\ ret # <<>> /\ ret[1].doc = "A" /\ ~ret[1].raised
    /\ resolution_stack = <<"A">>
    /\ Len(other.frames) = 1 /\ other.frames[1].doc = "LH"

\* a document without any reference, so in no cycle, is rejected as circular
\* while the other call has it in flight
RejectedInFlight ==
    /\ result # <<>> /\ result[1].stats.error = "circular_reference"
    /\ result[1].depth = 0
    /\ ExtractReferences(result[1].arg) = <<>>
    /\ \E j \in 1..Len(other.frames) : other.frames[j].doc = result[1].doc

\* with one caller the stack is the identifiers of the activations in flight
OwnStackAlone == (other = NoThread) => resolution_stack = [j \in 1..Len(frames) |-> frames[j].doc]

----------------------------------------------------------------------------
(* Properties of the structure parser *)

RECURSIVE OpenIfs(_, _)
\* the IF markers of a marker sequence that no later ENDIF closes, n being
\* the number open before it
OpenIfs(marks, n) ==
    IF marks = <<>> THEN n
    ELSE OpenIfs(Tail(marks),
                 IF Head(marks) = "if" THEN n + 1
                 ELSE IF Head(marks) = "endif" /\ n > 0 THEN n - 1
                 ELSE n)

RECURSIVE AllMarks(_)
\* the markers of a sequence of text nodes, in document order
AllMarks(texts) ==
    IF texts = <<>> THEN <<>> ELSE Head(texts).marks \o AllMarks(Tail(texts))

\* the IF markers of the parsed document left without ENDIF
UnclosedInDocument == OpenIfs(AllMarks(FindAllTags(document.kids, {"text"})), 0)

ParseReturned == ParserIdle /\ parsed # <<>>

\* C11: validate_structure on the tree parse_document_structure made of an
\* HTML document gives is_valid = true exactly when every IF marker of the document was closed by
\* an ENDIF; with k >= 1 IF markers left open it gives is_valid = false and one
\* error that counts k unclosed conditionals.
C11_UnclosedReported ==
    (ParseReturned /\ document.html /\ validation # <<>>)
    => /\ validation[1].is_valid = (UnclosedInDocument = 0)
       /\ UnclosedInDocument >= 1
          => validation[1].errors = <<<<"unclosed_conditionals", UnclosedInDocument>>>>

\* C12: parse_document_structure returns for a chain of nested tables of any
\* length, also one longer than MAX_NESTING_DEPTH; an activation of
\* _process_nested_tables with depth >= MAX_NESTING_DEPTH does nothing but
\* return: it creates no node, counts no table, and calls no further activation.
C12_StopsAtMaxDepth ==
    /\ (pc = "tables") ~> ParseReturned
    /\ [](\A j \in 1..Len(activations) :
            activations[j].depth >= MAX_NESTING_DEPTH
            => j = Len(activations) /\ activations[j].stage = "entry")
    /\ [][(activations # <<>> /\ Cur.depth >= MAX_NESTING_DEPTH)
          => /\ activations' = Front(activations)
             /\ UNCHANGED <<root, parser_statistics, attrs>>]_vars

C12_Witness ==
    /\ ParseReturned
    /\ Len(FindAllTags(document.kids, {"table"})) > MAX_NESTING_DEPTH
    /\ CalculateMaxDepth(parsed[1].root) = MAX_NESTING_DEPTH
    /\ parser_statistics.tables_parsed > MAX_NESTING_DEPTH

\* C20: every node of a tree that parse_document_structure returned has
\* depth <= MAX_NESTING_DEPTH, table nodes and conditional nodes alike.
C20_NodeDepthBounded ==
    ParseReturned
    => \A j \in 1..Len(Nodes(parsed[1].root)) :
           Nodes(parsed[1].root)[j].depth <= MAX_NESTING_DEPTH

RECURSIVE DeepestOpen(_, _, _)
\* the greatest number of conditionals open at once while the text nodes are
\* read in order: n are open now, best is the greatest number so far
DeepestOpen(texts, n, best) ==
    IF texts = <<>> THEN best
    ELSE LET kind == Classify(Head(texts).marks)
             m == IF kind = "if" THEN n + 1
                  ELSE IF kind = "endif" /\ n > 0 THEN n - 1
                  ELSE n
         IN  DeepestOpen(Tail(texts), m, IF m > best THEN m ELSE best)

\* the elements wrapped as conditional markers at a depth above 1
DeepWrappers(a) ==
    {id \in DOMAIN a : /\ "data-conditional" \in DOMAIN a[id]
                       /\ "data-depth" \in DOMAIN a[id]
                       /\ a[id]["data-depth"] > 1}

\* C21: when more than one conditional was open at some point of the parse,
\* the end of _process_conditional_blocks adds one to complex_structures and
\* sets data-nested-conditional on the wrappers of depth above 1, whether or
\* not the conditionals were closed later.
C21_NestedMarked ==
    [][(/\ pc = "conditionals" /\ pc' = "mixed"
        /\ DeepestOpen(conditionals.text_nodes, 0, 0) > 1)
       => /\ parser_statistics'.complex_structures = parser_statistics.complex_structures + 1
          /\ \A id \in DeepWrappers(attrs) :
                 GetAttr(attrs', id, "data-nested-conditional", "") = "true"]_vars

\* the marking the code does make: two or more conditionals still open at the end
NestedMarkedIfLeftOpen ==
    [][(/\ pc = "conditionals" /\ pc' = "mixed"
        /\ Len(conditionals.conditional_stack) > 1)
       => /\ parser_statistics'.complex_structures = parser_statistics.complex_structures + 1
          /\ DeepWrappers(attrs) # {}
          /\ \A id \in DeepWrappers(attrs) :
                 GetAttr(attrs', id, "data-nested-conditional", "") = "true"]_vars

StatisticNames ==
    {"tables_parsed", "conditionals_parsed", "nested_structures", "complex_structures",
     "max_depth_reached"}

\* C22: of two successive answers of get_statistics on one parser, with any
\* parse_document_structure calls in between, the later one has no statistic
\* below the earlier one's.
C22_StatisticsAccumulate ==
    [][(stats_reply # <<>> /\ stats_reply' # <<>>)
       => \A k \in StatisticNames : stats_reply'[1][k] >= stats_reply[1][k]]_vars

\* the greatest depth of any node of a tree
DeepestNode(r) == MaxOf({Nodes(r)[j].depth : j \in 1..Len(Nodes(r))})

\* C22 as amended: the four counters of two successive answers of
\* get_statistics do not decrease; max_depth_reached is not accumulated: after
\* every parse of a non-empty content it is the greatest depth of the tree
\* that this call returned.
C22_CountersAccumulate ==
    /\ [][(stats_reply # <<>> /\ stats_reply' # <<>>)
          => \A k \in StatisticNames \ {"max_depth_reached"} :
                 stats_reply'[1][k] >= stats_reply[1][k]]_vars
    /\ []((ParseReturned /\ document.kids # <<>>)
          => parser_statistics.max_depth_reached = DeepestNode(parsed[1].root))

\* get_statistics answers after a parse whose tree is the root alone, on a
\* parser that has counted a table in an earlier parse (a counted table is a
\* node of depth 1 in the tree of its parse)
C22_Witness ==
    /\ stats_reply # <<>>
    /\ ParseReturned /\ document.kids # <<>> /\ parsed[1].root.children = <<>>
    /\ stats_reply[1].tables_parsed >= 1
    /\ stats_reply[1].conditionals_parsed >= 1
    /\ stats_reply[1].max_depth_reached = 0

RECURSIVE DepthsFit(_, _)
\* every child of the kinds given, at any level below node, is one deeper
\* than its parent
DepthsFit(node, types) ==
    \A j \in 1..Len(node.children) :
        /\ node.children[j].type \in types => node.children[j].depth = node.depth + 1
        /\ DepthsFit(node.children[j], types)

\* C25: in the tree that parse_document_structure returns the root has depth
\* 0 and every other node is one deeper than its parent.
C25_ChildOneDeeper ==
    ParseReturned => /\ parsed[1].root.depth = 0
                     /\ DepthsFit(parsed[1].root, {"table", "conditional", "mixed"})

\* the same for the table and mixed nodes alone
TablesOneDeeper ==
    ParseReturned => /\ parsed[1].root.depth = 0
                     /\ DepthsFit(parsed[1].root, {"table", "mixed"})

\* the tables that have a TABLE node in a tree, as a bag of their ids
TableIds(node) ==
    LET tn == SelectSeq(Nodes(node), LAMBDA x : x.type = "table")
    IN  [j \in 1..Len(tn) |-> tn[j].content]

\* the tables visited so far in the parse in progress: those with a node in
\* the tree or in the node an activation is building
Visited ==
    {TableIds(root)[j] : j \in 1..Len(TableIds(root))}
    \cup UNION {{TableIds(activations[a].node)[j] :
                    j \in 1..Len(TableIds(activations[a].node))} :
                a \in 1..Len(activations)}

\* the parsed document is one table with a chain of nested tables, within
\* MAX_NESTING_DEPTH
ChainParsed ==
    \E n \in 1..MAX_NESTING_DEPTH : document = Doc(TRUE, TableChain(1, n))

\* C27: for a chain of nested tables within MAX_NESTING_DEPTH the returned
\* tree has one TABLE node per table of the document, and every visit of a
\* table (a step that counts it in tables_parsed) counts one table that no
\* activation has visited before.
C27_OneNodePerTable ==
    /\ []((ParseReturned /\ ChainParsed) =>
             /\ CountByType(parsed[1].root, "table")
                    = Len(FindAllTags(document.kids, {"table"}))
             /\ \A i, j \in 1..Len(TableIds(parsed[1].root)) :
                    i # j => TableIds(parsed[1].root)[i] # TableIds(parsed[1].root)[j])
    /\ [][(ChainParsed /\ parser_statistics'.tables_parsed # parser_statistics.tables_parsed)
          => /\ parser_statistics'.tables_parsed = parser_statistics.tables_parsed + 1
             /\ Cur.tables[Cur.ti].id \notin Visited]_vars

\* the claim does hold for one table and for one table nested in another
OneNodePerTableUpToTwo ==
    (ParseReturned /\ document \in {Doc(TRUE, TableChain(1, n)) : n \in 1..2})
    => CountByType(parsed[1].root, "table") = Len(FindAllTags(document.kids, {"table"}))

RECURSIVE Closings(_, _, _)
\* the ENDIF markers of a marker sequence met while a conditional is open: n
\* conditionals are open now, k such markers were met so far
Closings(marks, n, k) ==
    IF marks = <<>> THEN k
    ELSE IF Head(marks) = "if" THEN Closings(Tail(marks), n + 1, k)
    ELSE IF Head(marks) = "endif" /\ n > 0 THEN Closings(Tail(marks), n - 1, k + 1)
    ELSE Closings(Tail(marks), n, k)

\* the markers of the text nodes as the if / elif chain reads them: one per
\* text node, the first kind that matches
MarksRead(texts) ==
    [j \in 1..Len(texts) |-> Classify(texts[j].marks)]

\* C28: the tree returned for an HTML document has one CONDITIONAL node per
\* ENDIF marker met while a conditional was open, none for a conditional left
\* open; an ENDIF or ELSE met while no conditional is open leaves the tree and
\* the open conditionals as they are.
C28_NodePerClosingEndif ==
    /\ []((ParseReturned /\ document.html) =>
             CountByType(parsed[1].root, "conditional")
                 = Closings(AllMarks(FindAllTags(document.kids, {"text"})), 0, 0))
    /\ [][(/\ pc = "conditionals" /\ pc' = "conditionals"
           /\ conditionals.conditional_stack = <<>>
           /\ ~Has(conditionals.text_nodes[conditionals.i].marks, "if"))
          => UNCHANGED <<root, attrs, parser_statistics>>
             /\ conditionals'.conditional_stack = <<>>]_vars

\* the same with one marker read per text node, which is what the loop does
NodePerClosingTextNode ==
    (ParseReturned /\ document.html) =>
        CountByType(parsed[1].root, "conditional")
            = Closings(MarksRead(FindAllTags(document.kids, {"text"})), 0, 0)

\* the second half of C28 alone
StrayMarkersHarmless ==
    [][(/\ pc = "conditionals" /\ pc' = "conditionals"
        /\ conditionals.conditional_stack = <<>>
        /\ ~Has(conditionals.text_nodes[conditionals.i].marks, "if"))
       => UNCHANGED <<root, attrs, parser_statistics>>
          /\ conditionals'.conditional_stack = <<>>]_vars

\* the body elements of the parsed document
Bodies == FindAllTags(document.kids, {"body"})

\* C30: the data-max-depth that a parse writes on the body of the enhanced
\* HTML is the greatest depth of the tree the same call returns, which is
\* also max_depth_reached after the call.
C30_MaxDepthStamped ==
    (ParseReturned /\ document.html /\ Bodies # <<>>)
    => /\ GetAttr(parsed[1].enhanced.attrs, Bodies[1].id, "data-max-depth", -1)
              = CalculateMaxDepth(parsed[1].root)
       /\ parser_statistics.max_depth_reached = CalculateMaxDepth(parsed[1].root)

\* what the body does carry: the two counts of the parser as they stand at
\* the end of the call
CountsStamped ==
    (ParseReturned /\ document.html /\ Bodies # <<>>)
    => /\ GetAttr(parsed[1].enhanced.attrs, Bodies[1].id, "data-table-count", -1)
              = parser_statistics.tables_parsed
       /\ GetAttr(parsed[1].enhanced.attrs, Bodies[1].id, "data-conditional-count", -1)
              = parser_statistics.conditionals_parsed
       /\ parser_statistics.max_depth_reached = CalculateMaxDepth(parsed[1].root)

====
